---- MODULE Spec2Model ----
(***************************************************************************)
(* timescale-usage: the worker of pkg/worker/worker.go.                    *)
(*                                                                         *)
(* Start connects, migrates, and then runs one cycle (run) or a cycle per  *)
(* ticker tick until the context is cancelled.  A cycle upserts a usage    *)
(* record for every hypertable, then for every continuous aggregate, and   *)
(* then deletes the usage records of objects that left the source schema.  *)
(* The database catalog, the clock, the ticker and the context are the     *)
(* environment.                                                            *)
(***************************************************************************)
EXTENDS Integers, FiniteSets, Sequences, TLC

(* ------------------------------ bounds -------------------------------- *)

\* time.Now() is a day of 0..MaxNow
MaxNow == 1

\* hypertable_approximate_size returns NULL or 1..MaxSize
MaxSize == 1

(* --------------------------- configuration ---------------------------- *)

\* config.PostgresSourceSchema
PostgresSourceSchema == "src"

\* the values of config.Duration: unset, a duration, not a duration
Durations == {"", "10s", "bogus"}

\* time.ParseDuration(config.Duration) succeeds
ParseDurationOk(d) == d = "10s"

(* ------------------------------ database ------------------------------ *)

Obj(schema, name, kind) == [schema |-> schema, name |-> name, kind |-> kind]

\* the hypertables and continuous aggregates the database may hold
Universe ==
    { Obj("src", "a", "table"), Obj("src", "b", "view"), Obj("other", "b", "table") }

Names == { o.name : o \in Universe }

Null == -1
Sizes == {Null} \cup (1 .. MaxSize)

\* the time of an object's first row: none, or a day up to t
NoRows == -1
FirstDates(t) == {NoRows} \cup (0 .. t)

(* ------------------------------- errors ------------------------------- *)

Err(op, code) == [op |-> op, code |-> code]
NoErr == Err("nil", "nil")

\* SQLSTATE of a failing statement: undefined_table, connection_failure
SqlStates == {"42P01", "08006"}

errIsTableDoesNotExistNever(err) == FALSE

\* strings.Contains(err.Error(), "SQLSTATE 42P01")
errIsTableDoesNotExist(err) == err.code = "42P01"

(* --------------------------- bytes per day ---------------------------- *)

Abs(x) == IF x < 0 THEN -x ELSE x

RECURSIVE Gcd(_, _)
Gcd(a, b) == IF b = 0 THEN a ELSE Gcd(b, a % b)

\* the quotient n/d, d # 0, in lowest terms with a positive denominator
Quot(n, d) ==
    LET g == Gcd(Abs(n), Abs(d))
        s == IF d < 0 THEN -1 ELSE 1
    IN  [num |-> s * (n \div g), den |-> s * (d \div g)]

Zero == [num |-> 0, den |-> 1]

\* size.Get() != nil ? size.Get().(int64) : 0
tableSizeBytes(size) == IF size # Null THEN size ELSE 0

\* firstDate := now, replaced by the first row's time when there is one
firstDate(now, first) == IF first = NoRows THEN now ELSE first

\* days := now.Sub(firstDate).Hours() / 24
days(now, first) == now - firstDate(now, first)

bytesPerDayWhole(size, now, first) ==
    IF days(now, first) # 0
    THEN Quot(tableSizeBytes(size), days(now, first))
    ELSE [num |-> tableSizeBytes(size), den |-> 1]

\* bytesPerDay = 0, or float64(tableSizeBytes) / days when days != 0
bytesPerDay(size, now, first) ==
    IF days(now, first) # 0
    THEN Quot(tableSizeBytes(size), days(now, first))
    ELSE Zero

(* ---------------------------- usage table ----------------------------- *)

Record(table, bytes, updated, bpd) ==
    [table |-> table, bytes |-> bytes, updated_at |-> updated, bytes_per_day |-> bpd]

InsertPlain(st, rec) == st \cup {rec}

\* INSERT INTO usage ... ON CONFLICT ("table") DO UPDATE SET ...
InsertOnConflictUpdate(st, rec) ==
    { r \in st : r.table # rec.table } \cup {rec}

\* hypertable_name of timescaledb_information.hypertables in a schema
HypertablesOf(cat, schema) ==
    { o.name : o \in { x \in cat : x.kind = "table" /\ x.schema = schema } }

\* view_name of timescaledb_information.continuous_aggregates in a schema
ViewsOf(cat, schema) ==
    { o.name : o \in { x \in cat : x.kind = "view" /\ x.schema = schema } }

DeleteOutdatedInverted(st, cat) ==
    { r \in st : r.table \notin HypertablesOf(cat, PostgresSourceSchema)
                 /\ r.table \notin ViewsOf(cat, PostgresSourceSchema) }

\* DELETE FROM usage WHERE "table" NOT IN (...) AND "table" NOT IN (...)
DeleteOutdated(st, cat) ==
    { r \in st : ~ ( r.table \notin HypertablesOf(cat, PostgresSourceSchema)
                     /\ r.table \notin ViewsOf(cat, PostgresSourceSchema) ) }

(* ------------------------------- state -------------------------------- *)

VARIABLES
    duration,   \* config.Duration
    pc,         \* where Start is
    ret,        \* what Start returned
    ticker,     \* ticker.C: "nil" before NewTicker, then "empty" or "full"
    cancelled,  \* ctx.Done() is closed
    catalog,    \* the hypertables and continuous aggregates that exist
    usage,      \* the rows of the usage table
    metrics,    \* bytesMetrics: table label -> gauge value, NoMetric if unset
    rpc,        \* where run is
    rerr,       \* what run returns
    rows,       \* the rows of the open catalog query not yet iterated
    uerr,       \* what the last call of upsert in the open loop returned
    logLine,    \* the line log.Println printed last
    runs,       \* how many cycles were started: "none", "one", "more"
    attempts,   \* calls of upsert in the cycle started last
    upserted    \* objects whose upsert returned nil in the cycle started last

vars == << duration, pc, ret, ticker, cancelled, catalog, usage, metrics,
           rpc, rerr, rows, uerr, logLine, runs, attempts, upserted >>

env == << catalog, cancelled >>
cycle == << rpc, rerr, rows, uerr, attempts, upserted >>

NoMetric == -1

Log(kind, table) == [kind |-> kind, table |-> table]

(* -------------------------------- Init -------------------------------- *)

\* usage rows left by earlier processes
PriorUsage == { { Record(n, 0, 0, Zero) : n \in N } : N \in SUBSET Names }

Init ==
    /\ duration \in Durations
    /\ pc = "connect"
    /\ ret = NoErr
    /\ ticker = "nil"
    /\ cancelled = FALSE
    /\ catalog \in SUBSET Universe
    /\ usage \in PriorUsage
    /\ metrics = [n \in Names |-> NoMetric]
    /\ rpc = "idle"
    /\ rerr = NoErr
    /\ rows = {}
    /\ uerr = NoErr
    /\ logLine = Log("", "")
    /\ runs = "none"
    /\ attempts = 0
    /\ upserted = {}

(* ---------------------------- environment ----------------------------- *)

CancelInterrupts ==
    /\ pc \notin {"returned", "blocked"}
    /\ ~cancelled
    /\ cancelled' = TRUE
    /\ pc' = IF pc = "run" THEN "returned" ELSE pc
    /\ UNCHANGED << duration, ret, ticker, catalog, usage, metrics,
                    logLine, runs >>
    /\ UNCHANGED cycle

\* the context passed to Start is cancelled while Start is not parked in the
\* select
Cancel ==
    /\ pc \notin {"returned", "blocked"}
    /\ ~cancelled
    /\ cancelled' = TRUE
    /\ UNCHANGED << duration, pc, ret, ticker, catalog, usage, metrics,
                    logLine, runs >>
    /\ UNCHANGED cycle

\* the ticker's period elapses while Start is not parked in the select;
\* ticker.C holds one tick, a second is dropped
Tick ==
    /\ pc \notin {"returned", "blocked"}
    /\ ticker = "empty"
    /\ ticker' = "full"
    /\ UNCHANGED << duration, pc, ret, usage, metrics, logLine, runs >>
    /\ UNCHANGED env
    /\ UNCHANGED cycle

\* a hypertable or continuous aggregate is dropped
DropObject ==
    /\ pc # "returned"
    /\ \E o \in catalog : catalog' = catalog \ {o}
    /\ UNCHANGED << duration, pc, ret, ticker, cancelled, usage, metrics,
                    logLine, runs >>
    /\ UNCHANGED cycle

(* ------------------------------- Start -------------------------------- *)

\* return err
Return(err) ==
    /\ pc' = "returned"
    /\ ret' = err

\* w.run() is entered
CallRun ==
    /\ pc' = "run"
    /\ rpc' = "tables"
    /\ rerr' = NoErr
    /\ rows' = {}
    /\ uerr' = NoErr
    /\ attempts' = 0
    /\ upserted' = {}
    /\ runs' = IF runs = "none" THEN "one" ELSE "more"
    /\ logLine' = Log("Starting Update..", "")

NewConnPoolOk ==
    /\ pc = "connect"
    /\ pc' = "migrate"
    /\ UNCHANGED << duration, ret, ticker, usage, metrics, logLine, runs >>
    /\ UNCHANGED env
    /\ UNCHANGED cycle

NewConnPoolFail ==
    /\ pc = "connect"
    /\ Return(Err("NewConnPool", "08006"))
    /\ UNCHANGED << duration, ticker, usage, metrics, logLine, runs >>
    /\ UNCHANGED env
    /\ UNCHANGED cycle

\* w.migrate() creates the usage schema and table if they are missing
migrateOk ==
    /\ pc = "migrate"
    /\ pc' = "dispatch"
    /\ UNCHANGED << duration, ret, ticker, usage, metrics, logLine, runs >>
    /\ UNCHANGED env
    /\ UNCHANGED cycle

migrateFailGoesOn ==
    /\ pc = "migrate"
    /\ pc' = "dispatch"
    /\ ret' = Err("migrate", "08006")
    /\ UNCHANGED << duration, ticker, usage, metrics, logLine, runs >>
    /\ UNCHANGED env
    /\ UNCHANGED cycle

migrateFail ==
    /\ pc = "migrate"
    /\ Return(Err("migrate", "08006"))
    /\ UNCHANGED << duration, ticker, usage, metrics, logLine, runs >>
    /\ UNCHANGED env
    /\ UNCHANGED cycle

StartModeNoOneShot(d) == IF ParseDurationOk(d) THEN "repeating" ELSE "error"

\* len(config.Duration) == 0, then time.ParseDuration(config.Duration)
StartMode(d) ==
    IF d = "" THEN "oneshot"
    ELSE IF ParseDurationOk(d) THEN "repeating" ELSE "error"

\* return w.run()
StartOneShot ==
    /\ pc = "dispatch"
    /\ StartMode(duration) = "oneshot"
    /\ CallRun
    /\ UNCHANGED << duration, ret, ticker, usage, metrics >>
    /\ UNCHANGED env

ParseDurationFail ==
    /\ pc = "dispatch"
    /\ StartMode(duration) = "error"
    /\ Return(Err("ParseDuration", "invalid"))
    /\ UNCHANGED << duration, ticker, usage, metrics, logLine, runs >>
    /\ UNCHANGED env
    /\ UNCHANGED cycle

\* ticker := time.NewTicker(d); err = w.run()
StartRepeating ==
    /\ pc = "dispatch"
    /\ StartMode(duration) = "repeating"
    /\ ticker' = "empty"
    /\ CallRun
    /\ UNCHANGED << duration, ret, usage, metrics >>
    /\ UNCHANGED env

AfterRunWrapped(err, oneshot) ==
    IF oneshot \/ err # NoErr
    THEN [pc |-> "returned", ret |-> IF err = NoErr THEN err ELSE Err("run", err.code)]
    ELSE [pc |-> "select", ret |-> NoErr]

AfterRunRetry(err, oneshot) ==
    IF oneshot
    THEN [pc |-> "returned", ret |-> err]
    ELSE [pc |-> "select", ret |-> NoErr]

\* what Start does with the err of w.run(): return it, or go on to the select
AfterRun(err, oneshot) ==
    IF oneshot \/ err # NoErr
    THEN [pc |-> "returned", ret |-> err]
    ELSE [pc |-> "select", ret |-> NoErr]

\* the select of Start finds a tick in ticker.C and takes that case:
\* err = w.run()
SelectTick ==
    /\ pc = "select"
    /\ ticker = "full"
    /\ ticker' = "empty"
    /\ CallRun
    /\ UNCHANGED << duration, ret, usage, metrics >>
    /\ UNCHANGED env

SelectDoneUnlessTick ==
    /\ pc = "select"
    /\ cancelled
    /\ ticker # "full"
    /\ Return(NoErr)
    /\ UNCHANGED << duration, ticker, usage, metrics, logLine, runs >>
    /\ UNCHANGED env
    /\ UNCHANGED cycle

\* the select of Start finds ctx.Done() closed and takes that case: return nil
SelectDone ==
    /\ pc = "select"
    /\ cancelled
    /\ Return(NoErr)
    /\ UNCHANGED << duration, ticker, usage, metrics, logLine, runs >>
    /\ UNCHANGED env
    /\ UNCHANGED cycle

\* the select of Start finds no case ready and parks
SelectBlocks ==
    /\ pc = "select"
    /\ ticker # "full"
    /\ ~cancelled
    /\ pc' = "blocked"
    /\ UNCHANGED << duration, ret, ticker, usage, metrics, logLine, runs >>
    /\ UNCHANGED env
    /\ UNCHANGED cycle

\* a tick arrives while Start is parked: it is handed to the select, which
\* takes case <-ticker.C
WakeOnTick ==
    /\ pc = "blocked"
    /\ CallRun
    /\ UNCHANGED << duration, ret, ticker, usage, metrics >>
    /\ UNCHANGED env

\* the context is cancelled while Start is parked: the select takes
\* case <-ctx.Done()
WakeOnDone ==
    /\ pc = "blocked"
    /\ cancelled' = TRUE
    /\ Return(NoErr)
    /\ UNCHANGED << duration, ticker, catalog, usage, metrics, logLine, runs >>
    /\ UNCHANGED cycle

(* -------------------------------- run --------------------------------- *)

\* the catalog a phase of run lists: upsertTables, then upsertViews
KindOf(phase) == IF phase \in {"tables", "tablesRows"} THEN "table" ELSE "view"

ListingOfSource(cat, kind) ==
    { o \in cat : o.kind = kind /\ o.schema = PostgresSourceSchema }

\* SELECT ... FROM timescaledb_information.hypertables (or
\* continuous_aggregates): every object of the kind, of every schema
Listing(cat, kind) == { o \in cat : o.kind = kind }

NextPhaseCleanupFirst(phase) == IF KindOf(phase) = "table" THEN "cleanup" ELSE "views"

\* what run does when upsertWithQuery returned nil
NextPhase(phase) == IF KindOf(phase) = "table" THEN "views" ELSE "cleanup"

\* upsertWithQuery returns: its rows and err are gone
Leave ==
    /\ rows' = {}
    /\ uerr' = NoErr

\* run returns err to Start, which returns it or goes on to the select
RunReturns(err) ==
    /\ rerr' = err
    /\ rpc' = "idle"
    /\ pc' = AfterRun(err, ticker = "nil").pc
    /\ ret' = AfterRun(err, ticker = "nil").ret

\* upsertWithQuery returned nil: run goes on, logging "Cleanup" before the delete
PhaseDone ==
    /\ rpc' = NextPhase(rpc)
    /\ Leave
    /\ logLine' = IF NextPhase(rpc) = "cleanup" THEN Log("Cleanup", "") ELSE logLine
    /\ UNCHANGED << pc, ret, rerr, attempts, upserted >>

\* rows, err := w.conn.Query(query), err == nil
QueryOk ==
    /\ pc = "run"
    /\ rpc \in {"tables", "views"}
    /\ rows' = Listing(catalog, KindOf(rpc))
    /\ rpc' = IF rpc = "tables" THEN "tablesRows" ELSE "viewsRows"
    /\ UNCHANGED << duration, pc, ret, ticker, usage, metrics, logLine, runs,
                    rerr, uerr, attempts, upserted >>
    /\ UNCHANGED env

\* w.conn.Query(query) fails
QueryFail ==
    /\ pc = "run"
    /\ rpc \in {"tables", "views"}
    /\ \E code \in SqlStates : RunReturns(Err("Query", code))
    /\ UNCHANGED << duration, ticker, usage, metrics, logLine, runs, rows, uerr,
                    attempts, upserted >>
    /\ UNCHANGED env

\* rows.Next() is false after the last row
RowsEnd ==
    /\ pc = "run"
    /\ rpc \in {"tablesRows", "viewsRows"}
    /\ rows = {}
    /\ PhaseDone
    /\ UNCHANGED << duration, ticker, usage, metrics, runs >>
    /\ UNCHANGED env

\* rows.Next() is false because reading the next row failed; rows.Err() is
\* not looked at
RowsNextFails ==
    /\ pc = "run"
    /\ rpc \in {"tablesRows", "viewsRows"}
    /\ rows # {}
    /\ PhaseDone
    /\ UNCHANGED << duration, ticker, usage, metrics, runs >>
    /\ UNCHANGED env

\* rows.Scan(&schema, &table, &size) fails
ScanFail ==
    /\ pc = "run"
    /\ rpc \in {"tablesRows", "viewsRows"}
    /\ rows # {}
    /\ Leave
    /\ RunReturns(Err("Scan", "08006"))
    /\ UNCHANGED << duration, ticker, usage, metrics, logLine, runs,
                    attempts, upserted >>
    /\ UNCHANGED env

\* the loop body of upsertWithQuery from the scanned row to the call of upsert
Scanned(o) ==
    /\ pc = "run"
    /\ rpc \in {"tablesRows", "viewsRows"}
    /\ o \in rows

\* err = w.upsert(schema, table, size) for the row of o
Upserted(o, err) ==
    /\ rows' = rows \ {o}
    /\ uerr' = err
    /\ attempts' = attempts + 1
    /\ upserted' = IF err = NoErr THEN upserted \cup {o} ELSE upserted

\* the loop body of upsertWithQuery after upsert returned err # nil
UpsertFailed(o, err) ==
    IF errIsTableDoesNotExist(err)
    THEN /\ logLine' = Log("WARNING", o.name)
         /\ UNCHANGED << pc, ret, rpc, rerr >>
    ELSE /\ RunReturns(err)
         /\ UNCHANGED logLine

upsertWritesNoGauge(o, size, now, first) ==
    /\ Scanned(o)
    /\ o \in catalog
    /\ Upserted(o, NoErr)
    /\ usage' = InsertOnConflictUpdate(usage,
                   Record(o.name, tableSizeBytes(size), now,
                          bytesPerDay(size, now, first)))
    /\ metrics' = metrics

\* what upsert writes for the row of o when every statement succeeds: size
\* is the size scanned, now the reading of time.Now(), first the time of the
\* object's first row
upsertWrites(o, size, now, first) ==
    /\ Scanned(o)
    /\ o \in catalog
    /\ Upserted(o, NoErr)
    /\ usage' = InsertOnConflictUpdate(usage,
                   Record(o.name, tableSizeBytes(size), now,
                          bytesPerDay(size, now, first)))
    /\ metrics' = [metrics EXCEPT ![o.name] = tableSizeBytes(size)]

\* upsert returns nil: the usage row is written and the gauge set
upsertOk ==
    /\ \E o \in rows, size \in Sizes, now \in 0 .. MaxNow :
       \E first \in FirstDates(now) : upsertWrites(o, size, now, first)
    /\ UNCHANGED << duration, pc, ret, ticker, logLine, runs, rpc, rerr >>
    /\ UNCHANGED env

\* upsert returns the error of the first-row query: undefined_table when the
\* object is gone, a connection failure at any time
upsertQueryRowFail ==
    /\ \E o \in rows :
          /\ Scanned(o)
          /\ \E code \in (IF o \in catalog THEN {"08006"} ELSE SqlStates) :
                /\ Upserted(o, Err("QueryRow", code))
                /\ UpsertFailed(o, Err("QueryRow", code))
    /\ UNCHANGED << duration, ticker, usage, metrics, runs >>
    /\ UNCHANGED env

\* upsert returns the error of the INSERT: the usage table is gone
\* (undefined_table) or the connection failed
upsertExecFail ==
    /\ \E o \in rows :
          /\ Scanned(o)
          /\ o \in catalog
          /\ \E code \in SqlStates :
                /\ Upserted(o, Err("Exec", code))
                /\ UpsertFailed(o, Err("Exec", code))
    /\ UNCHANGED << duration, ticker, usage, metrics, runs >>
    /\ UNCHANGED env

CleanupOkEvicts ==
    /\ pc = "run"
    /\ rpc = "cleanup"
    /\ usage' = DeleteOutdated(usage, catalog)
    /\ metrics' = [n \in Names |->
                      IF \E r \in DeleteOutdated(usage, catalog) : r.table = n
                      THEN metrics[n] ELSE NoMetric]
    /\ logLine' = Log("Done", "")
    /\ RunReturns(NoErr)
    /\ UNCHANGED << duration, ticker, runs, rows, uerr, attempts, upserted >>
    /\ UNCHANGED env

\* the DELETE of run succeeds; run logs "Done" and returns nil
CleanupOk ==
    /\ pc = "run"
    /\ rpc = "cleanup"
    /\ usage' = DeleteOutdated(usage, catalog)
    /\ logLine' = Log("Done", "")
    /\ RunReturns(NoErr)
    /\ UNCHANGED << duration, ticker, metrics, runs, rows, uerr, attempts, upserted >>
    /\ UNCHANGED env

CleanupFailDeletes ==
    /\ pc = "run"
    /\ rpc = "cleanup"
    /\ usage' = DeleteOutdated(usage, catalog)
    /\ \E code \in SqlStates : RunReturns(Err("Delete", code))
    /\ UNCHANGED << duration, ticker, metrics, logLine, runs, rows, uerr,
                    attempts, upserted >>
    /\ UNCHANGED env

\* the DELETE of run fails
CleanupFail ==
    /\ pc = "run"
    /\ rpc = "cleanup"
    /\ \E code \in SqlStates : RunReturns(Err("Delete", code))
    /\ UNCHANGED << duration, ticker, usage, metrics, logLine, runs, rows, uerr,
                    attempts, upserted >>
    /\ UNCHANGED env

(* ---------------------------- specification --------------------------- *)

Next ==
    \/ Cancel
    \/ Tick
    \/ DropObject
    \/ NewConnPoolOk
    \/ NewConnPoolFail
    \/ migrateOk
    \/ migrateFail
    \/ StartOneShot
    \/ ParseDurationFail
    \/ StartRepeating
    \/ SelectTick
    \/ SelectDone
    \/ SelectBlocks
    \/ WakeOnTick
    \/ WakeOnDone
    \/ QueryOk
    \/ QueryFail
    \/ RowsEnd
    \/ RowsNextFails
    \/ ScanFail
    \/ upsertOk
    \/ upsertQueryRowFail
    \/ upsertExecFail
    \/ CleanupOk
    \/ CleanupFail

Spec == Init /\ [][Next]_vars

TypeOK ==
    /\ duration \in Durations
    /\ pc \in {"connect", "migrate", "dispatch", "run", "select", "blocked", "returned"}
    /\ ticker \in {"nil", "empty", "full"}
    /\ cancelled \in BOOLEAN
    /\ catalog \subseteq Universe
    /\ \A r \in usage : r.table \in Names /\ r.bytes \in 0 .. MaxSize
    /\ rpc \in {"idle", "tables", "tablesRows", "views", "viewsRows", "cleanup"}
    /\ rows \subseteq Universe
    /\ runs \in {"none", "one", "more"}
    /\ attempts \in 0 .. Cardinality(Universe)
    /\ upserted \subseteq Universe

(* ----------------------------- scheduling ----------------------------- *)

\* a step of a cycle, from the first catalog query to the return of run
RunStep ==
    \/ QueryOk
    \/ QueryFail
    \/ RowsEnd
    \/ RowsNextFails
    \/ ScanFail
    \/ upsertOk
    \/ upsertQueryRowFail
    \/ upsertExecFail
    \/ CleanupOk
    \/ CleanupFail

\* a database that holds the hypertable of the source schema or nothing, and
\* an empty usage table
LiveInit ==
    /\ Init
    /\ catalog \subseteq {Obj("src", "a", "table")}
    /\ usage = {}

\* Every database call returns, so a cycle that has started goes on; the
\* select chooses among its ready cases at random, so the case of ctx.Done()
\* is taken in the end when it is ready again and again.
LiveSpec ==
    /\ LiveInit
    /\ [][Next]_vars
    /\ WF_vars(RunStep)
    /\ SF_vars(SelectDone)

(* ---------------------------- upsert alone ---------------------------- *)

\* the days of the clock and of first rows when upsert is taken alone
MaxDay == 4

\* sizes the catalog may report: NULL, nothing, a few bytes, a mebibyte
UpsertSizes == {Null, 0, 1, 3, 1048576}

\* the time of a first row: none, or any day, later than now included
UpsertFirstDates == {NoRows} \cup (0 .. MaxDay)

\* the loop of upsertWithQuery holds the row of the one object of the
\* catalog, over an empty usage table
UpsertInit ==
    /\ duration = ""
    /\ pc = "run"
    /\ ret = NoErr
    /\ ticker = "nil"
    /\ cancelled = FALSE
    /\ \E o \in Universe :
          /\ catalog = {o}
          /\ rows = {o}
          /\ rpc = IF o.kind = "table" THEN "tablesRows" ELSE "viewsRows"
    /\ usage = {}
    /\ metrics = [n \in Names |-> NoMetric]
    /\ rerr = NoErr
    /\ uerr = NoErr
    /\ logLine = Log("Starting Update..", "")
    /\ runs = "one"
    /\ attempts = 0
    /\ upserted = {}

\* upsert returns nil, for any size, clock reading and first row
upsertAny ==
    /\ \E o \in rows, size \in UpsertSizes, now \in 0 .. MaxDay, first \in UpsertFirstDates :
          upsertWrites(o, size, now, first)
    /\ UNCHANGED << duration, pc, ret, ticker, logLine, runs, rpc, rerr >>
    /\ UNCHANGED env

UpsertSpec == UpsertInit /\ [][upsertAny]_vars

(* ------------------------------- claims ------------------------------- *)

\* C1: in one-shot mode (config.Duration empty) no ticker is created and the
\* select is never reached; once migrate has succeeded exactly one cycle is
\* run, never a second, and Start returns nil when that cycle returned nil.
C1_OneShotRunsOneCycle ==
    duration = "" =>
        /\ runs # "more"
        /\ ticker = "nil"
        /\ pc \notin {"select", "blocked"}
        /\ (pc \in {"connect", "migrate", "dispatch"} => runs = "none")
        /\ (pc = "returned" /\ ret.op \notin {"NewConnPool", "migrate"} => runs = "one")
        /\ (pc = "returned" /\ runs = "one" /\ rerr = NoErr => ret = NoErr)

C1_Witness ==
    /\ duration = ""
    /\ pc = "returned"
    /\ runs = "one"
    /\ logLine = Log("Done", "")
    /\ ret = NoErr

\* C2: in repeating mode, when the context is cancelled while Start is at the
\* select, parked or about to choose, no cycle is started from there and the
\* return from there returns nil; also when a tick is pending in ticker.C.
C2_CancelAtWaitStartsNoCycle ==
    [][ (pc \in {"select", "blocked"} /\ cancelled')
            => (pc' # "run" /\ (pc' = "returned" => ret' = NoErr)) ]_vars

\* C3: in repeating mode, once the context is cancelled Start returns in the
\* end, and returns nil unless a cycle returned an error; also when a tick is
\* pending every time Start reaches the select.
C3_CancelledEventuallyStops ==
    (ticker # "nil" /\ cancelled)
        ~> (pc = "returned" /\ (rerr = NoErr => ret = NoErr))

\* Start returned nil from the select with a tick pending, after a cycle that
\* a tick started
C3_Witness ==
    /\ pc = "returned"
    /\ cancelled
    /\ ticker = "full"
    /\ runs = "more"
    /\ ret = NoErr

\* C4: when a cycle returns an error, Start returns that error in the same
\* step, and nothing happens after it: no cycle is started, the usage table
\* and the gauges stay as they are.
C4_CycleErrorTerminates ==
    [][ /\ rerr' # NoErr => (pc' = "returned" /\ rpc' = "idle" /\ ret' = rerr')
        /\ rerr # NoErr => UNCHANGED << pc, rpc, ret, rerr, runs, usage, metrics >>
      ]_vars

\* a cycle started by a tick returned an error, which Start returned
C4_Witness ==
    /\ pc = "returned"
    /\ ticker # "nil"
    /\ runs = "more"
    /\ rerr # NoErr
    /\ ret = rerr

UpsertCall(o) ==
    /\ pc = "run"
    /\ rows # rows'
    /\ rows \ rows' = {o}
    /\ attempts' = attempts + 1

\* C6: when upsert fails because the listed object is gone (the first-row
\* query returns undefined_table), the cycle goes on: the warning names the
\* object, no usage row and no gauge is written, upsertWithQuery stays in its
\* loop with the remaining rows, and run has not returned.
C6_VanishedObjectSkipped ==
    [][ \A o \in Universe :
          (UpsertCall(o) /\ uerr' = Err("QueryRow", "42P01"))
              => /\ o \notin catalog
                 /\ logLine' = Log("WARNING", o.name)
                 /\ usage' = usage
                 /\ metrics' = metrics
                 /\ upserted' = upserted
                 /\ rows' = rows \ {o}
                 /\ pc' = "run" /\ rpc' = rpc /\ rerr' = NoErr
      ]_vars

\* a hypertable was skipped as vanished after another was upserted, and the
\* views are still to come
C6_Witness ==
    /\ pc = "run"
    /\ rpc = "tablesRows"
    /\ uerr = Err("QueryRow", "42P01")
    /\ logLine = Log("WARNING", "b")
    /\ upserted = {Obj("src", "a", "table")}
    /\ Obj("src", "b", "view") \in catalog

\* C7: every error of upsert other than the first-row query failing because
\* the object is gone ends the cycle and is what run returns; in particular
\* every error of the INSERT.
C7_OnlyVanishedAbsorbed ==
    [][ \A o \in Universe :
          (UpsertCall(o) /\ uerr' # NoErr /\ uerr' # Err("QueryRow", "42P01"))
              => (rpc' = "idle" /\ rerr' = uerr') ]_vars

\* the usage rows named by no hypertable and no continuous aggregate of the
\* source schema
Stale(st, cat) ==
    { r \in st : \A o \in cat : o.schema = PostgresSourceSchema => o.name # r.table }

\* C8: when the DELETE of a cycle has succeeded, every usage row is named by
\* a hypertable or a continuous aggregate that the source schema holds at that
\* time, whatever the usage table held before.
C8_NoStaleRecordAfterCleanup ==
    [][ (rpc = "cleanup" /\ rpc' = "idle" /\ rerr' = NoErr)
            => Stale(usage', catalog') = {} ]_vars

\* a cycle that succeeded deleted the row of "a", written before (its gauge
\* is set), and kept a row of an object the source schema holds
C8_Witness ==
    /\ pc = "select"
    /\ rerr = NoErr
    /\ metrics["a"] # NoMetric
    /\ \A r \in usage : r.table # "a"
    /\ usage # {}
    /\ Stale(usage, catalog) = {}

\* C9: an object whose upsert succeeded in a cycle and which the catalog
\* still holds when the DELETE of that cycle succeeds has its usage row after
\* the DELETE, whatever its schema.
C9_UpsertedObjectKept ==
    [][ (rpc = "cleanup" /\ rpc' = "idle" /\ rerr' = NoErr)
            => \A o \in upserted \cap catalog :
                   \E r \in usage' : r.table = o.name ]_vars

\* the rows a call of upsert may write
Records ==
    UNION { { Record(n, tableSizeBytes(size), now, bytesPerDay(size, now, first)) :
                first \in FirstDates(now) } :
            n \in Names, size \in Sizes, now \in 0 .. MaxNow }

\* C10: the usage table holds at most one row per name, and wherever the loop
\* of upsertWithQuery may call upsert, writing a row leaves exactly one row of
\* its name, the row written, and the other rows as they were; writing it
\* again changes nothing.
C10_OneRecordPerName ==
    /\ \A r1, r2 \in usage : r1.table = r2.table => r1 = r2
    /\ rows # {} => \A rec \in Records :
          LET once == InsertOnConflictUpdate(usage, rec)
          IN  /\ { r \in once : r.table = rec.table } = {rec}
              /\ { r \in once : r.table # rec.table } = { r \in usage : r.table # rec.table }
              /\ InsertOnConflictUpdate(once, rec) = once

\* a table and a view of one name were both upserted in one cycle, the view
\* last, over a row an earlier process left
C10_Witness ==
    /\ Obj("other", "b", "table") \in upserted
    /\ Obj("src", "b", "view") \in upserted
    /\ { r \in usage : r.table = "b" } # {}
    /\ \A r \in usage : r.table = "b" => r.bytes = MaxSize /\ r.updated_at = MaxNow

\* C11: the row upsert writes holds the size in bytes (0 for NULL) and, as
\* bytes per day, 0 when the age is 0 days (the first row is of now, or there
\* is no first row) and the size divided by the age otherwise; the division
\* is never by zero.
C11_BytesPerDay ==
    [][ \A o \in Universe, size \in UpsertSizes, now \in 0 .. MaxDay, first \in UpsertFirstDates :
          upsertWrites(o, size, now, first) =>
              LET S == IF size = Null THEN 0 ELSE size
                  age == IF first = NoRows THEN 0 ELSE now - first
              IN  \E r \in usage' :
                     /\ r.table = o.name
                     /\ r.bytes = S
                     /\ r.bytes_per_day.den > 0
                     /\ age = 0 => r.bytes_per_day = Zero
                     /\ age # 0 => r.bytes_per_day.num * age = S * r.bytes_per_day.den
      ]_vars

\* a mebibyte whose first row is two days old: 524288 bytes per day
C11_Witness ==
    /\ attempts = 1
    /\ \E r \in usage :
          /\ r.bytes = 1048576
          /\ r.updated_at = 3
          /\ r.bytes_per_day = [num |-> 524288, den |-> 1]

\* C12: w.migrate() is called once, after the connection and before any
\* cycle: Start is at the call only coming from NewConnPool, the first cycle
\* starts from the dispatch that follows it; when it fails Start returns its
\* error at once, no cycle has run, and none runs afterwards (no catalog
\* query, no upsert, no DELETE).
C12_MigrateOnceBeforeCycles ==
    [][ /\ pc' = "connect" => pc = "connect"
        /\ pc' = "migrate" => pc \in {"connect", "migrate"}
        /\ pc = "migrate" => pc' \in {"migrate", "dispatch", "returned"}
        /\ runs' # "none" => pc' \notin {"connect", "migrate"}
        /\ (runs = "none" /\ runs' # "none") => pc = "dispatch"
        /\ ret'.op = "migrate" =>
              /\ pc' = "returned"
              /\ runs' = "none"
              /\ rpc' = "idle" /\ attempts' = 0 /\ upserted' = {}
              /\ usage' = usage /\ metrics' = metrics
        /\ ret.op = "migrate" => UNCHANGED << pc, ret, runs, cycle >>
      ]_vars

\* migrate failed in repeating mode with objects to measure: Start returned
\* its error and no cycle was started
C12_Witness ==
    /\ pc = "returned"
    /\ ret = Err("migrate", "08006")
    /\ duration = "10s"
    /\ catalog = Universe
    /\ runs = "none"
    /\ logLine = Log("", "")

\* C13: when a catalog query fails, or the loop of upsertWithQuery is left
\* with rows still unread and without a call of upsert (reading or scanning
\* the next row failed), run returns an error there: it neither goes on to
\* the next phase nor reaches the DELETE.
C13_ListingFailureAborts ==
    [][ /\ (pc = "run" /\ rpc \in {"tables", "views"}
               /\ rpc' \notin {"tables", "views", "tablesRows", "viewsRows"})
            => (rpc' = "idle" /\ rerr' # NoErr)
        /\ (pc = "run" /\ rpc \in {"tablesRows", "viewsRows"} /\ rows # {}
               /\ rpc' # rpc /\ attempts' = attempts)
            => (rpc' = "idle" /\ rerr' # NoErr)
      ]_vars

\* C14: a cycle goes through its steps in one order: the hypertables query
\* and its upserts, then the continuous aggregates query and its upserts,
\* then the DELETE.  upsert is called only inside the loop of its phase and
\* for a row of that phase's kind; the DELETE is reached only from the end of
\* the views loop with no error returned; after the DELETE run returns, and
\* only a new cycle, starting again at the hypertables, calls upsert again.
C14_TablesViewsCleanup ==
    [][ /\ rpc' = "tables" => (rpc \in {"idle", "tables"} /\ attempts' = 0 /\ upserted' = {})
        /\ rpc' = "tablesRows" => rpc \in {"tables", "tablesRows"}
        /\ rpc' = "views" => rpc \in {"tablesRows", "views"}
        /\ rpc' = "viewsRows" => rpc \in {"views", "viewsRows"}
        /\ rpc' = "cleanup" => (rpc \in {"viewsRows", "cleanup"} /\ rerr' = NoErr)
        /\ rpc = "cleanup" => rpc' \in {"cleanup", "idle"}
        /\ rpc = "idle" => rpc' \in {"idle", "tables"}
        /\ \A o \in Universe : UpsertCall(o) =>
              (rpc \in {"tablesRows", "viewsRows"} /\ o.kind = KindOf(rpc))
        /\ (attempts' # attempts \/ upserted' # upserted) =>
              (rpc \in {"tablesRows", "viewsRows"} \/ rpc' = "tables")
        /\ rpc' \in {"tables", "tablesRows"} => \A o \in upserted' : o.kind = "table"
        /\ (usage' # usage \/ metrics' # metrics) => rpc \in {"tablesRows", "viewsRows", "cleanup"}
        /\ (\E r \in usage : r \notin usage' /\ \A q \in usage' : q.table # r.table)
              => (rpc = "cleanup" /\ rpc' = "idle")
      ]_vars

\* a cycle upserted the two hypertables and then the continuous aggregate,
\* and its DELETE succeeded
C14_Witness ==
    /\ pc = "select"
    /\ rerr = NoErr
    /\ attempts = 3
    /\ upserted = Universe
    /\ logLine = Log("Done", "")

\* C15: a catalog query that succeeds opens one row for every hypertable
\* (then every continuous aggregate) the catalog holds, of whatever schema,
\* and calls upsert for none yet; every turn of the loop takes one row that
\* is still open and calls upsert once for it, so that the open rows and the
\* calls made add up to the same sum all along; a loop that ends after its
\* last row has called upsert for each row once.  With N and M rows listed
\* and no failure that makes N + M calls.  The DELETE is issued from the end
\* of the views loop only, and run returns with it: once in a cycle at most.
C15_EachListedObjectOnce ==
    [][ /\ (rpc = "tables" /\ rpc' = "tablesRows") =>
              /\ rows' = { o \in catalog : o.kind = "table" }
              /\ attempts = 0 /\ attempts' = 0
        /\ (rpc = "views" /\ rpc' = "viewsRows") =>
              /\ rows' = { o \in catalog : o.kind = "view" }
              /\ attempts' = attempts
        /\ (pc = "run" /\ rpc \in {"tablesRows", "viewsRows"} /\ rpc' = rpc) =>
              \/ rows' = rows /\ attempts' = attempts
              \/ \E o \in rows :
                    /\ rows' = rows \ {o}
                    /\ attempts' = attempts + 1
                    /\ Cardinality(rows') + attempts' = Cardinality(rows) + attempts
                    /\ uerr' = NoErr => upserted' = upserted \cup {o}
        /\ (pc = "run" /\ rpc \in {"tablesRows", "viewsRows"} /\ rpc' # rpc /\ rows = {}) =>
              /\ rpc' = NextPhase(rpc)
              /\ attempts' = attempts
              /\ rows' = {}
        /\ rpc' = "cleanup" => rpc \in {"viewsRows", "cleanup"}
        /\ (rpc = "cleanup" /\ rpc' # "cleanup") => (rpc' = "idle" /\ attempts' = attempts)
        /\ (rpc = "idle" /\ rpc' # "idle") => (rpc' = "tables" /\ attempts' = 0)
      ]_vars

\* the one cycle of a one-shot Start listed two hypertables and a continuous
\* aggregate, called upsert three times, once for each, and returned nil
C15_Witness ==
    /\ duration = ""
    /\ pc = "returned"
    /\ ret = NoErr
    /\ catalog = Universe
    /\ attempts = Cardinality(Universe)
    /\ upserted = Universe
    /\ Cardinality({ r.table : r \in usage }) = Cardinality(Names)

\* C16: Start is inside w.run() exactly while a cycle is in progress, and
\* leaves it only in the step in which the cycle returns.  While a cycle is
\* in progress a tick only fills ticker.C and a cancellation only closes
\* ctx.Done(): neither changes where the cycle is, starts another cycle or
\* makes Start return.  A cycle is started only when none is in progress.
C16_CycleNotInterrupted ==
    [][ /\ (pc = "run") <=> (rpc # "idle")
        /\ (pc' = "run") <=> (rpc' # "idle")
        /\ (pc = "run" /\ pc' # "run") =>
              /\ rpc' = "idle"
              /\ rpc = "cleanup" \/ rerr' # NoErr
              /\ pc' = "returned" => (ticker = "nil" \/ rerr' # NoErr)
              /\ ret' = rerr'
        /\ (pc = "run" /\ (ticker' # ticker \/ cancelled' # cancelled)) =>
              UNCHANGED << pc, ret, runs, usage, metrics, logLine, cycle >>
        /\ runs' # runs => (pc # "run" /\ rpc = "idle" /\ pc' = "run" /\ rpc' = "tables")
        /\ (rpc' = "tables" /\ rpc # "tables") =>
              (rpc = "idle" /\ pc \in {"dispatch", "select", "blocked"})
      ]_vars

\* a tick fired and the context was cancelled while the startup cycle was in
\* progress; the cycle went on to its DELETE
C16_Witness ==
    /\ pc = "run"
    /\ rpc = "cleanup"
    /\ runs = "one"
    /\ ticker = "full"
    /\ cancelled
    /\ upserted = Universe

\* C17: the step in which a cycle returns an error writes, deletes and
\* rolls back nothing; when the cycle has returned an error every object
\* upserted in it has its usage row and its gauge, holding what its upsert
\* wrote, and they stay so: no further upsert, no DELETE.  A usage row's name
\* disappears only in a DELETE that succeeds.
C17_AbortKeepsUpserts ==
    [][ /\ (rerr = NoErr /\ rerr' # NoErr) =>
              (usage' = usage /\ metrics' = metrics /\ upserted' = upserted)
        /\ rerr' # NoErr =>
              \A o \in upserted' :
                 /\ \E r \in usage' : r.table = o.name /\ r.bytes = metrics'[o.name]
                 /\ metrics'[o.name] # NoMetric
        /\ rerr # NoErr => UNCHANGED << usage, metrics, upserted, attempts, rows >>
        /\ (\E r \in usage : \A q \in usage' : q.table # r.table) =>
              (rpc = "cleanup" /\ rerr' = NoErr)
      ]_vars

\* the cycle failed at the INSERT of its second hypertable: the first keeps
\* its row and gauge, the second and the continuous aggregate have none
C17_Witness ==
    /\ pc = "returned"
    /\ rerr = Err("Exec", "08006")
    /\ attempts = 2
    /\ upserted = {Obj("src", "a", "table")}
    /\ Obj("src", "b", "view") \in catalog
    /\ metrics = [n \in Names |-> IF n = "a" THEN MaxSize ELSE NoMetric]
    /\ \E r \in usage : r.table = "a" /\ r.bytes = MaxSize

\* C18: a call of upsert that returns nil leaves the gauge of the object's
\* name at the bytes of the usage row it wrote, and the other gauges as they
\* were; a call that returns an error, the skipped one of a vanished object
\* included, changes no gauge and no usage row; and nothing but a call of
\* upsert that returns nil changes a gauge.
C18_GaugeFollowsUpsert ==
    [][ /\ \A o \in Universe : UpsertCall(o) =>
              IF uerr' = NoErr
              THEN /\ \E r \in usage' : r.table = o.name /\ r.bytes = metrics'[o.name]
                   /\ metrics'[o.name] \in 0 .. MaxSize
                   /\ \A n \in Names \ {o.name} : metrics'[n] = metrics[n]
              ELSE metrics' = metrics /\ usage' = usage
        /\ metrics' # metrics => \E o \in Universe : UpsertCall(o) /\ uerr' = NoErr
      ]_vars

\* the hypertable other.b was upserted and the continuous aggregate src.b of
\* the same name then skipped as vanished: the gauge of "b" is the
\* hypertable's
C18_Witness ==
    /\ rpc = "viewsRows"
    /\ uerr = Err("QueryRow", "42P01")
    /\ upserted = {Obj("other", "b", "table")}
    /\ metrics["b"] = MaxSize
    /\ \E r \in usage : r.table = "b" /\ r.bytes = MaxSize /\ r.updated_at = MaxNow

\* C19: a gauge that is set stays set: no step unsets one, and only a call
\* of upsert for its name that returns nil changes its value; dropping the
\* object and the DELETE that removes its usage row leave the gauges as they
\* are.
C19_NoGaugeEvicted ==
    [][ /\ \A n \in Names :
              /\ metrics[n] # NoMetric => metrics'[n] # NoMetric
              /\ metrics'[n] # metrics[n] =>
                    \E o \in Universe : o.name = n /\ UpsertCall(o) /\ uerr' = NoErr
        /\ (catalog' # catalog \/ rpc = "cleanup" \/ rpc = "idle") => metrics' = metrics
      ]_vars

\* every object was dropped after a cycle measured it, and a later cycle
\* deleted all usage rows: the gauges still show the sizes
C19_Witness ==
    /\ pc = "select"
    /\ rerr = NoErr
    /\ runs = "more"
    /\ catalog = {}
    /\ usage = {}
    /\ logLine = Log("Done", "")
    /\ \A n \in Names : metrics[n] = MaxSize

====
